---- MODULE Spec2Model ----
(***************************************************************************)
(* Model of pkg/cli/virtualizers.go: the five build-and-launch entry       *)
(* points runVMware, runFirecracker, runHyperV, runVirtualBox and runQEMU, *)
(* with saveDisk and buildFirecracker.                                     *)
(*                                                                         *)
(* One orchestration call is a sequence of statements; each statement that *)
(* changes state or can fail is one action, and the position of a call is  *)
(* the field pc of its record.  Deferred functions run, last registered    *)
(* first, between the statement that decides the returned error and the    *)
(* return itself.  The host (its operating system, the bridge device, the  *)
(* scratch directories and files, the durable address queue) and the       *)
(* package-level variable ips are shared by every call of the process.     *)
(***************************************************************************)
EXTENDS Integers, Sequences, FiniteSets

\* ------------------------------------------------------------------ bounds
\* number of addresses the allocator's queue is pre-populated with
PoolSize == 3
\* largest number of network interfaces a configuration declares
MaxNets == 2
\* orchestration calls made by one process
MaxCalls == 2
\* goroutines of the process that can make orchestration calls
NumThreads == 2
\* network interfaces a firecracker call declares when calls run concurrently
ConcNets == 1

Threads == 1..NumThreads

\* ------------------------------------------------------------- value sets
Backends == {"vmware", "firecracker", "hyperv", "virtualbox", "qemu"}

\* runtime.GOOS
HostSystems == {"linux", "windows", "darwin"}

\* values of randstr.Hex(5)
Suffixes == {"0a1b2c3d4e", "f9e8d7c6b5"}

\* names ioutil.TempFile can give a file of pattern "vorteil.disk"
TempNames == {"vorteil.disk001", "vorteil.disk002"}

\* the diskOutput parameter: "" asks for no copy of the disk
DiskOutputs == {"", "out.disk"}

\* identifiers vimgBuilder.KernelUsed can report
Kernels == {"20.9.1", "20.9.2"}

\* cfg.VM.Kernel as the caller passes it in
InitialKernel == "20.8.0"

\* iputil.BridgeIP, 10.26.10.1
BridgeIP == <<10, 26, 10, 1>>

\* the fixed /24 mask of a firecracker interface
Mask == "255.255.255.0"

\* the addresses iputil.NewIPStack pre-populates the durable queue with
Pool == [k \in 1..PoolSize |-> k + 1]

\* ip.ToString(): the text of a dequeued item
ToString(item) == <<10, 26, 10, item>>

\* a network slot of the configuration the caller passes in
UnsetNetwork == [IP |-> <<>>, Gateway |-> <<>>, Mask |-> ""]

\* Scratch directories: filepath.Join(os.TempDir(), VirtualizerID + "-" + suffix)
ScratchDirs == [id : Backends, suffix : Suffixes]

\* the file name of the disk inside the scratch directory
FixedName(b) == IF b = "vmware" THEN "disk.vmdk" ELSE "disk.vhd"

FileNames == {"disk.vmdk", "disk.vhd"} \cup TempNames

FilePaths == [dir : ScratchDirs, name : FileNames]

NoDir == [id |-> "", suffix |-> ""]
NoFile == [dir |-> NoDir, name |-> ""]

\* ---------------------------------------------------------------- state
VARIABLES
    goos,       \* runtime.GOOS of the host
    flagGUI,    \* the package-level flag flagGUI
    bridge,     \* TRUE when the bridge device exists on the host
    ips,        \* the package-level *goque.Queue: "nil", "open" or "closed"
    queue,      \* the items of the durable queue, head first
    dirs,       \* the scratch directories that exist
    files,      \* content of every file path of a scratch directory: "absent",
                \* "partial" (anything short of a complete image) or "image"
    outFile,    \* content of the file at the path diskOutput names
    call,       \* the record of each goroutine's current orchestration call
    ncalls      \* calls begun by the process

vars == <<goos, flagGUI, bridge, ips, queue, dirs, files, outFile, call, ncalls>>

host == <<goos, flagGUI>>

\* the record of a goroutine that is in no call, and of a call at its entry;
\* steps is the trace of the call and pre the shared state the call found
Idle ==
    [pc |-> "idle", backend |-> "", diskOutput |-> "", networks |-> <<>>,
     kernel |-> "", parent |-> NoDir, f |-> NoFile, fOpen |-> FALSE,
     err |-> "nil", ret |-> "none", steps |-> <<>>, i |-> 1,
     deferIpsClose |-> FALSE, deferRemoveAll |-> FALSE, deferFinal |-> FALSE,
     virt |-> "none", headless |-> "unset", initHeadless |-> "unset",
     berr |-> "nil", kernelVer |-> "",
     startDisk |-> NoFile, startKernel |-> "", leased |-> <<>>,
     relocErr |-> "nil", bridgeAt |-> <<>>,
     pre |-> [dirs |-> {}, queue |-> <<>>, ips |-> "nil", bridge |-> FALSE,
              outFile |-> "absent"]]

\* what a step of a call appends to the call's trace: the statement and
\* whether it succeeded
Log(c, op, ok) == Append(c.steps, <<op, ok>>)

Init ==
    /\ goos \in HostSystems
    /\ flagGUI \in BOOLEAN
    /\ bridge \in BOOLEAN
    /\ ips = "nil"
    /\ \E k \in 0..PoolSize : queue = SubSeq(Pool, k + 1, PoolSize)
    /\ dirs = {}
    /\ files = [p \in FilePaths |-> "absent"]
    /\ outFile = "absent"
    /\ call = [t \in Threads |-> Idle]
    /\ ncalls = 0

\* ------------------------------------------------------- control helpers
\* the call record of goroutine t becomes c
Update(t, c) == call' = [call EXCEPT ![t] = c]

\* The deferred functions of a run function run last registered first:
\* the closure that finalizes the disk, then os.RemoveAll(parent).
Unwind(c) ==
    IF c.deferFinal THEN "fin_close"
    ELSE IF c.deferRemoveAll THEN "rmall"
    ELSE "return"

\* `return err`: the error is fixed, the deferred functions run next
Fail(c, e) == [c EXCEPT !.err = e, !.pc = Unwind(c)]

\* the backends that check runtime.GOOS first, and the system each needs
Restricted(b) == b \in {"firecracker", "hyperv"}

RequiredOS(b) == IF b = "firecracker" THEN "linux" ELSE "windows"

\* mutant: the check of runtime.GOOS is left out
PlatformAny(b, os) == TRUE

\* runtime.GOOS != "linux" (firecracker), runtime.GOOS != "windows" (hyperv)
PlatformOK(b, os) == os = RequiredOS(b)

\* the backends that register `defer os.RemoveAll(parent)`
HasRemoveAll(b) == b \in {"firecracker", "virtualbox", "qemu"}

\* the backends that create the disk with os.Create under a fixed name
HasFixedName(b) == b \in {"vmware", "hyperv"}

\* ------------------------------------------------------ entry of a call
\* the call record of a goroutine that enters the run function of backend b
Enter(t, b, out, n) ==
    Update(t, [Idle EXCEPT
            !.pc = IF Restricted(b) THEN "platform" ELSE "probe",
            !.backend = b, !.diskOutput = out, !.kernel = InitialKernel,
            !.networks = [j \in 1..n |-> UnsetNetwork],
            !.pre = [dirs |-> dirs, queue |-> queue, ips |-> ips,
                     bridge |-> bridge, outFile |-> outFile]])

\* A goroutine calls one of the run functions: the backend, the output path
\* and the declared network interfaces are the caller's.  Only
\* buildFirecracker reads cfg.Networks.
Begin(t) ==
    /\ call[t].pc \in {"idle", "returned"}
    /\ ncalls < MaxCalls
    /\ \E b \in Backends, out \in DiskOutputs, n \in 0..MaxNets :
        /\ (b # "firecracker") => n = 0
        /\ Enter(t, b, out, n)
    /\ ncalls' = ncalls + 1
    /\ UNCHANGED <<host, bridge, ips, queue, dirs, files, outFile>>

\* if runtime.GOOS != ... { return errors.New(...) }
CheckPlatform(t) ==
    LET c == call[t]
        ok == PlatformOK(c.backend, goos)
        d == [c EXCEPT !.steps = Log(c, "CheckPlatform", ok)] IN
    /\ c.pc = "platform"
    /\ Update(t, IF ok THEN [d EXCEPT !.pc = "probe"] ELSE Fail(d, "ErrPlatform"))
    /\ UNCHANGED <<host, bridge, ips, queue, dirs, files, outFile, ncalls>>

\* mutant: the result of the probe is dropped
ProbeIgnored(c, avail) ==
    [c EXCEPT !.pc = IF c.backend = "firecracker" THEN "bridge" ELSE "mkdir"]

\* where a call goes with the result of Allocator.IsAvailable()
ProbeResult(c, avail) ==
    IF ~avail THEN Fail(c, "ErrUnavailable")
    ELSE [c EXCEPT !.pc = IF c.backend = "firecracker" THEN "bridge" ELSE "mkdir"]

\* if !X.Allocator.IsAvailable() { return errors.New(...) }
IsAvailable(t) ==
    LET c == call[t] IN
    /\ c.pc = "probe"
    /\ \E avail \in BOOLEAN :
        Update(t, ProbeResult([c EXCEPT !.steps = Log(c, "IsAvailable", avail)], avail))
    /\ UNCHANGED <<host, bridge, ips, queue, dirs, files, outFile, ncalls>>

\* mutant: the bridge is never provisioned
AfterFetchIgnored(present) == "mkdir"

\* if err != nil { err = firecracker.SetupBridge(...) }: the bridge is set
\* up when fetching it failed
AfterFetch(present) == IF present THEN "mkdir" ELSE "setup_bridge"

\* err = firecracker.FetchBridgeDevice(): fails when the device is absent
FetchBridgeDevice(t) ==
    LET c == call[t]
        d == [c EXCEPT !.steps = Log(c, "FetchBridgeDevice", bridge)] IN
    /\ c.pc = "bridge"
    /\ Update(t, [d EXCEPT !.pc = AfterFetch(bridge)])
    /\ UNCHANGED <<host, bridge, ips, queue, dirs, files, outFile, ncalls>>

\* err = firecracker.SetupBridge(log, iputil.BridgeIP)
SetupBridge(t) ==
    LET c == call[t] IN
    /\ c.pc = "setup_bridge"
    /\ \E ok \in BOOLEAN :
        LET d == [c EXCEPT !.bridgeAt = BridgeIP,
                           !.steps = Log(c, "SetupBridge", ok)] IN
        /\ Update(t, IF ok THEN [d EXCEPT !.pc = "mkdir"] ELSE Fail(d, "ErrBridge"))
        /\ bridge' = (bridge \/ ok)
    /\ UNCHANGED <<host, ips, queue, dirs, files, outFile, ncalls>>

\* parent := filepath.Join(os.TempDir(), ID-randstr.Hex(5));
\* [defer os.RemoveAll(parent)]; err = os.MkdirAll(parent, os.ModePerm).
\* MkdirAll succeeds on a directory that exists already.
MkdirAll(t) ==
    LET c == call[t] IN
    /\ c.pc = "mkdir"
    /\ \E s \in Suffixes, ok \in BOOLEAN :
        LET p == [id |-> c.backend, suffix |-> s]
            d == [c EXCEPT !.parent = p,
                           !.deferRemoveAll = HasRemoveAll(c.backend),
                           !.steps = Log(c, "MkdirAll", ok)] IN
        /\ Update(t, IF ok THEN [d EXCEPT !.pc = "create"] ELSE Fail(d, "ErrMkdir"))
        /\ dirs' = IF ok THEN dirs \cup {p} ELSE dirs
    /\ UNCHANGED <<host, bridge, ips, queue, files, outFile, ncalls>>

\* the path the disk file gets: the fixed name, or a name ioutil.TempFile
\* finds unused in the directory (names are interchangeable: the least one)
DiskPath(c) ==
    IF HasFixedName(c.backend)
    THEN [dir |-> c.parent, name |-> FixedName(c.backend)]
    ELSE LET free == {n \in TempNames : files[[dir |-> c.parent, name |-> n]] = "absent"}
         IN IF free = {} THEN NoFile
            ELSE [dir |-> c.parent,
                  name |-> IF "vorteil.disk001" \in free THEN "vorteil.disk001"
                           ELSE "vorteil.disk002"]

\* the deferred closure is registered once the disk file exists
RegistersFinal(c, ok) == ok

\* f, err := os.Create(filepath.Join(parent, "disk.vmdk")) or
\* f, err := ioutil.TempFile(parent, "vorteil.disk"); then defer func() {...}().
\* os.Create truncates a file that exists.
CreateDisk(t) ==
    LET c == call[t]
        p == DiskPath(c) IN
    /\ c.pc = "create"
    /\ \E ok \in BOOLEAN :
        LET d == [c EXCEPT !.steps = Log(c, "CreateDisk", ok)] IN
        /\ ok => (c.parent \in dirs /\ p # NoFile)
        /\ IF ok
           THEN /\ files' = [files EXCEPT ![p] = "partial"]
                /\ Update(t, [d EXCEPT !.f = p, !.fOpen = TRUE,
                                       !.deferFinal = RegistersFinal(c, ok),
                                       !.pc = IF c.backend = "firecracker"
                                              THEN "defaults" ELSE "build"])
           ELSE /\ files' = files
                /\ Update(t, Fail(d, "ErrCreate"))
    /\ UNCHANGED <<host, bridge, ips, queue, dirs, outFile, ncalls>>

\* ------------------------------------------------------------ the build
\* a write through the handle f reaches the file while its path names it
WriteDisk(fl, p, content) == IF fl[p] = "absent" THEN fl ELSE [fl EXCEPT ![p] = content]

\* where a call goes after vcfg.WithDefaults succeeded: firecracker applies
\* the defaults before the build, the other backends after Initialize
AfterDefaults(b) == IF b = "firecracker" THEN "net_loop" ELSE "start"

\* err = vcfg.WithDefaults(cfg, log)
WithDefaults(t) ==
    LET c == call[t] IN
    /\ c.pc = "defaults"
    /\ \E ok \in BOOLEAN :
        LET d == [c EXCEPT !.steps = Log(c, "WithDefaults", ok)] IN
        Update(t, IF ok THEN [d EXCEPT !.pc = AfterDefaults(c.backend)]
                  ELSE Fail(d, "ErrDefaults"))
    /\ UNCHANGED <<host, bridge, ips, queue, dirs, files, outFile, ncalls>>

\* mutant: the error of the build is not checked
BuildUnchecked(c, ok) == [c EXCEPT !.pc = "fclose"]

\* where a call goes with the error of the build step
BuildResult(c, ok) ==
    IF ok THEN [c EXCEPT !.pc = "fclose"] ELSE Fail(c, "ErrBuild")

\* err = vdisk.Build(context.Background(), f, &vdisk.BuildArgs{...})
Build(t) ==
    LET c == call[t] IN
    /\ c.pc = "build"
    /\ \E ok \in BOOLEAN :
        /\ files' = WriteDisk(files, c.f, IF ok THEN "image" ELSE "partial")
        /\ Update(t, BuildResult([c EXCEPT !.steps = Log(c, "Build", ok)], ok))
    /\ UNCHANGED <<host, bridge, ips, queue, dirs, outFile, ncalls>>

\* buildFirecracker: for i := range cfg.Networks { if ips == nil {...
NetLoop(t) ==
    LET c == call[t] IN
    /\ c.pc = "net_loop"
    /\ Update(t, [c EXCEPT !.pc = IF c.i > Len(c.networks) THEN "image"
                                  ELSE IF ips = "nil" THEN "net_new"
                                  ELSE "net_deq"])
    /\ UNCHANGED <<host, bridge, ips, queue, dirs, files, outFile, ncalls>>

\* ips, err = iputil.NewIPStack(); if err != nil { return "", err };
\* defer ips.Close()
NewIPStack(t) ==
    LET c == call[t] IN
    /\ c.pc = "net_new"
    /\ \E ok \in BOOLEAN :
        LET d == [c EXCEPT !.steps = Log(c, "NewIPStack", ok)] IN
        /\ ips' = IF ok THEN "open" ELSE "nil"
        /\ Update(t, IF ok THEN [d EXCEPT !.deferIpsClose = TRUE, !.pc = "net_deq"]
                     ELSE [d EXCEPT !.berr = "ErrIPStack", !.pc = "build_ret"])
    /\ UNCHANGED <<host, bridge, queue, dirs, files, outFile, ncalls>>

\* the error of ips.Dequeue(): goque refuses a closed queue (ErrDBClosed)
\* and an empty one (ErrEmpty); on a nil ips the method dereferences nil
\* and the goroutine panics
DequeueError(q, state) ==
    IF state = "nil" THEN "panic"
    ELSE IF state # "open" THEN "ErrDBClosed"
    ELSE IF q = <<>> THEN "ErrEmpty"
    ELSE "nil"

\* mutant: the head of the queue is read and left in the queue
Peeked(q) == q

\* the queue after ips.Dequeue() took its head
Dequeued(q) == Tail(q)

\* the slot written for the dequeued item ip
Slot(ip) == [IP |-> ToString(ip), Gateway |-> BridgeIP, Mask |-> Mask]

\* ip, err := ips.Dequeue(); if err != nil { return "", err };
\* cfg.Networks[i].IP = ip.ToString(); .Gateway = iputil.BridgeIP; .Mask = ...
Dequeue(t) ==
    LET c == call[t]
        e == DequeueError(queue, ips)
        d == [c EXCEPT !.steps = Log(c, "Dequeue", e = "nil")] IN
    /\ c.pc = "net_deq"
    /\ IF e = "nil"
       THEN /\ queue' = Dequeued(queue)
            /\ Update(t, [d EXCEPT !.networks[c.i] = Slot(Head(queue)),
                                   !.leased = Append(c.leased, Head(queue)),
                                   !.i = c.i + 1, !.pc = "net_loop"])
       ELSE /\ queue' = queue
            /\ Update(t, [d EXCEPT !.berr = e,
                                   !.pc = IF e = "panic" THEN "panicked"
                                          ELSE "build_ret"])
    /\ UNCHANGED <<host, bridge, ips, dirs, files, outFile, ncalls>>

\* vdisk.CreateBuilder, vdisk.NegotiateSize, args.Format.Build and
\* return string(vimgBuilder.KernelUsed()), nil
BuildImage(t) ==
    LET c == call[t] IN
    /\ c.pc = "image"
    /\ \E ok \in BOOLEAN, k \in Kernels :
        /\ ok \/ k = "20.9.1"
        /\ files' = WriteDisk(files, c.f, IF ok THEN "image" ELSE "partial")
        /\ Update(t, [c EXCEPT !.berr = IF ok THEN "nil" ELSE "ErrImage",
                               !.kernelVer = IF ok THEN k ELSE "",
                               !.pc = "build_ret"])
    /\ UNCHANGED <<host, bridge, ips, queue, dirs, outFile, ncalls>>

\* goque's Close: a queue that is open becomes closed, the variable ips
\* keeps pointing to it
Close(state) == IF state = "open" THEN "closed" ELSE state

\* mutant: the identifier the build returned is not stored
AssignNothing(c) == c.kernel

\* cfg.VM.Kernel after buildFirecracker returned kernelVer without error
AssignKernel(c) == c.kernelVer

\* buildFirecracker returns: its deferred ips.Close() runs when this call
\* constructed the queue; then, in runFirecracker,
\* if err != nil { return err }; cfg.VM.Kernel = kernelVer
BuildReturn(t) ==
    LET c == call[t]
        ok == c.berr = "nil"
        d == [c EXCEPT !.steps = Log(c, "Build", ok)] IN
    /\ c.pc = "build_ret"
    /\ ips' = IF c.deferIpsClose THEN Close(ips) ELSE ips
    /\ Update(t, IF ok THEN [BuildResult(d, ok) EXCEPT !.kernel = AssignKernel(c)]
                 ELSE [BuildResult(d, ok) EXCEPT !.err = c.berr])
    /\ UNCHANGED <<host, bridge, queue, dirs, files, outFile, ncalls>>

\* ------------------------------------------- closing, configuring, starting
\* mutant: the error of the step is not checked
ThenUnchecked(c, ok, next, e) == [c EXCEPT !.pc = next]

\* where a call goes with the error of a step that is followed by `next`
Then(c, ok, next, e) == IF ok THEN [c EXCEPT !.pc = next] ELSE Fail(c, e)

\* err = f.Close(): the handle is closed whatever Close returns
CloseFile(t) ==
    LET c == call[t] IN
    /\ c.pc = "fclose"
    /\ \E ok \in BOOLEAN :
        Update(t, Then([c EXCEPT !.fOpen = FALSE, !.steps = Log(c, "CloseFile", ok)],
                       ok, "rclose", "ErrClose"))
    /\ UNCHANGED <<host, bridge, ips, queue, dirs, files, outFile, ncalls>>

\* err = pkgReader.Close()
CloseReader(t) ==
    LET c == call[t] IN
    /\ c.pc = "rclose"
    /\ \E ok \in BOOLEAN :
        Update(t, Then([c EXCEPT !.steps = Log(c, "CloseReader", ok)],
                       ok, "alloc", "ErrReaderClose"))
    /\ UNCHANGED <<host, bridge, ips, queue, dirs, files, outFile, ncalls>>

\* mutant: Headless follows the GUI flag instead of negating it
HeadlessIsGUI(b, gui) ==
    IF b = "firecracker" THEN "unset" ELSE IF gui THEN "true" ELSE "false"

\* Headless: !flagGUI; firecracker.Config{} has no such field
Headless(b, gui) ==
    IF b = "firecracker" THEN "unset" ELSE IF gui THEN "false" ELSE "true"

\* alloc := X.Allocator; virt := alloc.Alloc(); config := X.Config{...}
Alloc(t) ==
    LET c == call[t] IN
    /\ c.pc = "alloc"
    /\ Update(t, [c EXCEPT !.virt = "allocated",
                           !.headless = Headless(c.backend, flagGUI),
                           !.steps = Log(c, "Alloc", TRUE),
                           !.pc = "init"])
    /\ UNCHANGED <<host, bridge, ips, queue, dirs, files, outFile, ncalls>>

\* where a call goes after Initialize succeeded: run for firecracker,
\* vcfg.WithDefaults for the other backends
AfterInitialize(b) == IF b = "firecracker" THEN "start" ELSE "defaults"

\* mutant: run is called although Initialize failed
InitializeUnchecked(c, ok) ==
    [c EXCEPT !.virt = IF ok THEN "initialized" ELSE c.virt,
              !.pc = AfterInitialize(c.backend)]

\* where a call goes with the error of virt.Initialize
InitializeResult(c, ok) ==
    IF ok THEN [c EXCEPT !.virt = "initialized", !.pc = AfterInitialize(c.backend)]
    ELSE Fail(c, "ErrInitialize")

\* err = virt.Initialize(config.Marshal()); if err != nil { return err }
Initialize(t) ==
    LET c == call[t] IN
    /\ c.pc = "init"
    /\ \E ok \in BOOLEAN :
        Update(t, InitializeResult([c EXCEPT !.initHeadless = c.headless,
                                             !.steps = Log(c, "Initialize", ok)], ok))
    /\ UNCHANGED <<host, bridge, ips, queue, dirs, files, outFile, ncalls>>

\* mutant: run is handed the fixed disk name whatever the backend
StartPathFixed(c) == [dir |-> c.parent, name |-> FixedName(c.backend)]

\* f.Name(), the path handed to run
StartPath(c) == c.f

\* return run(virt, f.Name(), cfg, name): run is entered
Start(t) ==
    LET c == call[t] IN
    /\ c.pc = "start"
    /\ Update(t, [c EXCEPT !.startDisk = StartPath(c), !.startKernel = c.kernel,
                           !.virt = "running",
                           !.steps = Log(c, "Start", TRUE),
                           !.pc = "running"])
    /\ UNCHANGED <<host, bridge, ips, queue, dirs, files, outFile, ncalls>>

\* run returns: its result is the value the call returns
StartReturn(t) ==
    LET c == call[t] IN
    /\ c.pc = "running"
    /\ \E ok \in BOOLEAN :
        LET d == [c EXCEPT !.steps = Log(c, "StartReturn", ok)] IN
        Update(t, IF ok THEN [d EXCEPT !.pc = Unwind(d)] ELSE Fail(d, "ErrStart"))
    /\ UNCHANGED <<host, bridge, ips, queue, dirs, files, outFile, ncalls>>

\* --------------------------------------------- the deferred functions
\* mutant: the disk is saved only when the call is returning no error
ShouldSaveOnSuccess(c) == c.diskOutput # "" /\ c.err = "nil"

\* if diskOutput != "" { saveDisk(f.Name(), diskOutput) }
ShouldSave(c) == c.diskOutput # ""

\* defer func() { f.Close() ...: closing a closed handle returns an error,
\* which the closure drops
FinalClose(t) ==
    LET c == call[t] IN
    /\ c.pc = "fin_close"
    /\ Update(t, [c EXCEPT !.fOpen = FALSE,
                           !.steps = Log(c, "FinalClose", c.fOpen),
                           !.pc = IF ShouldSave(c) THEN "save" ELSE "rm_file"])
    /\ UNCHANGED <<host, bridge, ips, queue, dirs, files, outFile, ncalls>>

\* saveDisk: err := os.Rename(sourceDisk, destDisk); the closure drops the
\* error saveDisk returns (it is logged by saveDisk)
saveDisk(t) ==
    LET c == call[t] IN
    /\ c.pc = "save"
    /\ \E ok \in BOOLEAN :
        /\ ok => files[c.f] # "absent"
        /\ outFile' = IF ok THEN files[c.f] ELSE outFile
        /\ files' = IF ok THEN [files EXCEPT ![c.f] = "absent"] ELSE files
        /\ Update(t, [c EXCEPT !.relocErr = IF ok THEN "nil" ELSE "ErrRename",
                               !.steps = Log(c, "saveDisk", ok),
                               !.pc = "rm_file"])
    /\ UNCHANGED <<host, bridge, ips, queue, dirs, ncalls>>

\* os.Remove(f.Name()): the error for a file that is gone is dropped
RemoveDisk(t) ==
    LET c == call[t] IN
    /\ c.pc = "rm_file"
    /\ files' = [files EXCEPT ![c.f] = "absent"]
    /\ Update(t, [c EXCEPT !.steps = Log(c, "RemoveDisk", files[c.f] # "absent"),
                           !.pc = "rm_parent"])
    /\ UNCHANGED <<host, bridge, ips, queue, dirs, outFile, ncalls>>

\* the files a directory holds
Entries(fl, p) == {q \in FilePaths : q.dir = p /\ fl[q] # "absent"}

\* mutant: the directory is not removed
RemoveNothing(ds, fl, p) == ds

\* os.Remove on a directory removes it when it is empty
RemoveEmpty(ds, fl, p) == IF Entries(fl, p) = {} THEN ds \ {p} ELSE ds

\* os.Remove(parent), the last statement of the deferred closure
RemoveParent(t) ==
    LET c == call[t] IN
    /\ c.pc = "rm_parent"
    /\ dirs' = RemoveEmpty(dirs, files, c.parent)
    /\ Update(t, [c EXCEPT !.steps = Log(c, "RemoveParent", c.parent \notin dirs'),
                           !.pc = IF c.deferRemoveAll THEN "rmall" ELSE "return"])
    /\ UNCHANGED <<host, bridge, ips, queue, files, outFile, ncalls>>

\* defer os.RemoveAll(parent): the directory and everything in it
RemoveAll(t) ==
    LET c == call[t] IN
    /\ c.pc = "rmall"
    /\ dirs' = dirs \ {c.parent}
    /\ files' = [q \in FilePaths |-> IF q.dir = c.parent THEN "absent" ELSE files[q]]
    /\ Update(t, [c EXCEPT !.steps = Log(c, "RemoveAll", TRUE), !.pc = "return"])
    /\ UNCHANGED <<host, bridge, ips, queue, outFile, ncalls>>

\* mutant: the error of closing the closed file is returned when the call
\* had none
ReturnValueOrClose(c) ==
    IF c.err # "nil" THEN c.err
    ELSE IF \E k \in DOMAIN c.steps : c.steps[k] = <<"FinalClose", FALSE>> THEN "ErrClosed"
    ELSE "ok"

\* mutant: the error of saveDisk is returned when the call had none
ReturnValueOrRelocation(c) ==
    IF c.err # "nil" THEN c.err
    ELSE IF c.relocErr # "nil" THEN c.relocErr
    ELSE "ok"

\* the value the caller receives: the error of the return statement; no
\* deferred function assigns to it
ReturnValue(c) == IF c.err = "nil" THEN "ok" ELSE c.err

\* the call returns to its caller
Return(t) ==
    LET c == call[t] IN
    /\ c.pc = "return"
    /\ Update(t, [c EXCEPT !.ret = ReturnValue(c), !.pc = "returned"])
    /\ UNCHANGED <<host, bridge, ips, queue, dirs, files, outFile, ncalls>>

\* ------------------------------------------------------ specification
\* one statement of the call of goroutine t
Run(t) ==
    \/ CheckPlatform(t)
    \/ IsAvailable(t)
    \/ FetchBridgeDevice(t)
    \/ SetupBridge(t)
    \/ MkdirAll(t)
    \/ CreateDisk(t)
    \/ WithDefaults(t)
    \/ Build(t)
    \/ NetLoop(t)
    \/ NewIPStack(t)
    \/ Dequeue(t)
    \/ BuildImage(t)
    \/ BuildReturn(t)
    \/ CloseFile(t)
    \/ CloseReader(t)
    \/ Alloc(t)
    \/ Initialize(t)
    \/ Start(t)
    \/ StartReturn(t)
    \/ FinalClose(t)
    \/ saveDisk(t)
    \/ RemoveDisk(t)
    \/ RemoveParent(t)
    \/ RemoveAll(t)
    \/ Return(t)

\* a goroutine enters a run function or executes its next statement
Step(t) == Begin(t) \/ Run(t)

\* The process makes its calls one after another, on one goroutine.
Next == Step(1)

Spec == Init /\ [][Next]_vars

\* The concurrent specification starts on a linux host with the whole pool
\* in the queue.
InitConc ==
    /\ Init
    /\ goos = "linux"
    /\ ~flagGUI
    /\ queue = Pool

\* The errors a step returns on the environment's account alone.  The
\* concurrent specification follows the calls whose environment does not
\* fail this way; the errors that the state of the shared queue and of the
\* file system decide (a queue that is closed or empty, a directory that is
\* gone) and a failing construction of the queue stay possible.
EnvErrors ==
    {"ErrBridge", "ErrMkdir", "ErrDefaults", "ErrImage", "ErrClose",
     "ErrReaderClose", "ErrInitialize", "ErrStart"}

Quiet(c) == c.err \notin EnvErrors /\ c.berr \notin EnvErrors

\* A panic no function recovers ends the process.
Crashed == \E u \in Threads : call[u].pc = "panicked"

\* Several goroutines call the run functions in one process: their
\* statements interleave.
\* The calls that run concurrently: a firecracker call declares ConcNets
\* interfaces, and every call is asked to keep its disk at the output path.
ConcBackends == {"firecracker", "vmware", "qemu"}

BeginConc(t) ==
    /\ call[t].pc \in {"idle", "returned"}
    /\ ncalls < MaxCalls
    /\ \E b \in ConcBackends :
        Enter(t, b, "out.disk", IF b = "firecracker" THEN ConcNets ELSE 0)
    /\ ncalls' = ncalls + 1
    /\ UNCHANGED <<host, bridge, ips, queue, dirs, files, outFile>>

NextConc ==
    /\ ~Crashed
    /\ \E t \in Threads : (BeginConc(t) \/ Run(t)) /\ Quiet(call'[t])

SpecConc == InitConc /\ [][NextConc]_vars

\* ---------------------------------------------------- reading a trace
\* the call reached its caller
Returned(c) == c.pc = "returned"

\* the statement op ran in the call, with any result / with result ok
Did(c, op) == \E k \in DOMAIN c.steps : c.steps[k][1] = op

DidWith(c, op, ok) == \E k \in DOMAIN c.steps : c.steps[k] = <<op, ok>>

\* how many times the statement op ran in the call
Times(c, op) == Cardinality({k \in DOMAIN c.steps : c.steps[k][1] = op})

\* the first place of the entry e in the trace s, 0 when it has none
Index(s, e) ==
    IF \E k \in DOMAIN s : s[k] = e
    THEN CHOOSE k \in DOMAIN s : s[k] = e /\ \A m \in 1..(k - 1) : s[m] # e
    ELSE 0

\* the scratch directory and the disk file of the call are gone
ScopeGone(c) ==
    /\ c.parent \notin dirs
    /\ \A q \in FilePaths : q.dir = c.parent => files[q] = "absent"
    /\ c.f # NoFile => files[c.f] = "absent"

\* the shared state the call found is the shared state now
Untouched(c) ==
    /\ dirs = c.pre.dirs
    /\ queue = c.pre.queue
    /\ ips = c.pre.ips
    /\ bridge = c.pre.bridge
    /\ outFile = c.pre.outFile
    /\ \A q \in FilePaths : files[q] = "absent"

\* ---------------------------------------------------------------- C1
\* C1 (as claimed): whenever a call that created its scratch directory
\* returns an error, whatever the backend and the failing step, the scratch
\* directory and the temporary disk file do not exist.
C1_ScopeGoneOnFailure ==
    \A t \in Threads :
        LET c == call[t] IN
        (Returned(c) /\ c.ret # "ok" /\ DidWith(c, "MkdirAll", TRUE)) => ScopeGone(c)

\* ---------------------------------------------------------------- C2
\* C2: whenever a call returns success, whatever the backend and whether or
\* not an output path was supplied, the scratch directory it created and
\* the temporary disk file no longer exist.
C2_ScopeGoneOnSuccess ==
    \A t \in Threads :
        LET c == call[t] IN
        (Returned(c) /\ c.ret = "ok") =>
            /\ DidWith(c, "MkdirAll", TRUE) /\ DidWith(c, "CreateDisk", TRUE)
            /\ ScopeGone(c)

\* a vmware call (no os.RemoveAll behind it) returned success after its
\* disk was relocated to the output path
C2_Witness ==
    \E t \in Threads :
        LET c == call[t] IN
        /\ Returned(c) /\ c.ret = "ok" /\ c.backend = "vmware"
        /\ c.diskOutput # "" /\ DidWith(c, "saveDisk", TRUE) /\ outFile = "image"

\* ---------------------------------------------------------------- C3
\* C3: once the availability probe of a call has returned false, the call
\* only returns, with an error: it creates no scratch directory and no disk
\* file, dequeues no address and does not construct the allocator's queue.
C3_UnavailableTouchesNothing ==
    \A t \in Threads :
        LET c == call[t] IN
        DidWith(c, "IsAvailable", FALSE) =>
            /\ c.pc \in {"return", "returned"}
            /\ c.err = "ErrUnavailable"
            /\ Returned(c) => c.ret = "ErrUnavailable"
            /\ c.parent = NoDir /\ c.f = NoFile /\ c.leased = <<>>
            /\ ~Did(c, "MkdirAll") /\ ~Did(c, "CreateDisk")
            /\ ~Did(c, "NewIPStack") /\ ~Did(c, "Dequeue")
            /\ Untouched(c)

\* a firecracker call on linux, with declared networks and addresses in
\* the queue, returned after its probe returned false
C3_Witness ==
    \E t \in Threads :
        LET c == call[t] IN
        /\ Returned(c) /\ DidWith(c, "IsAvailable", FALSE)
        /\ c.backend = "firecracker" /\ Len(c.networks) > 0 /\ queue # <<>>

\* ---------------------------------------------------------------- C4
\* C4: a firecracker call on a host that is not linux, and a hyper-v call
\* on a host that is not windows, does nothing but check the platform and
\* return the platform error: the probe is not consulted, no bridge device
\* is fetched or provisioned, no scratch directory is created and no address
\* is dequeued.
C4_PlatformFailsFast ==
    \A t \in Threads :
        LET c == call[t] IN
        (Restricted(c.backend) /\ goos # RequiredOS(c.backend) /\ c.pc # "platform") =>
            /\ c.steps = << <<"CheckPlatform", FALSE>> >>
            /\ c.pc \in {"return", "returned"}
            /\ c.err = "ErrPlatform"
            /\ Returned(c) => c.ret = "ErrPlatform"
            /\ c.parent = NoDir /\ c.f = NoFile /\ c.leased = <<>>
            /\ Untouched(c)

\* a firecracker call on a host without the bridge device, that is not
\* linux, returned
C4_Witness ==
    \E t \in Threads :
        LET c == call[t] IN
        /\ Returned(c) /\ c.backend = "firecracker" /\ goos = "darwin" /\ ~bridge
        /\ c.ret = "ErrPlatform"

\* ---------------------------------------------------------------- C5
\* the place of a statement in the sequence CheckAvailability, AcquireScope,
\* BuildDisk, close file and reader, ConfigureBackend, InitializeVirtualizer,
\* Start; 0 for vcfg.WithDefaults, whose place depends on the backend, and
\* for the statements of the deferred functions
Rank(op) ==
    CASE op = "CheckPlatform" -> 1
      [] op = "IsAvailable" -> 2
      [] op = "FetchBridgeDevice" -> 3
      [] op = "SetupBridge" -> 4
      [] op = "MkdirAll" -> 5
      [] op = "CreateDisk" -> 6
      [] op \in {"NewIPStack", "Dequeue"} -> 7
      [] op = "Build" -> 8
      [] op = "CloseFile" -> 9
      [] op = "CloseReader" -> 10
      [] op = "Alloc" -> 11
      [] op = "Initialize" -> 12
      [] op = "Start" -> 13
      [] op = "StartReturn" -> 14
      [] OTHER -> 0

\* the statements of the deferred functions
Cleanup == {"FinalClose", "saveDisk", "RemoveDisk", "RemoveParent", "RemoveAll"}

\* the statements whose failure is the failure of a step of the call
FailingSteps ==
    {"CheckPlatform", "IsAvailable", "SetupBridge", "MkdirAll", "CreateDisk",
     "WithDefaults", "Build", "CloseFile", "CloseReader", "Initialize",
     "StartReturn"}

\* C5: in every call, for every backend, the steps occur in the order
\* CheckAvailability, AcquireScope, BuildDisk, close of the disk file and of
\* the package reader, ConfigureBackend, InitializeVirtualizer, Start; after
\* a step failed only the deferred functions run: the virtualizer is not
\* allocated when the build or a close failed, and Start is not invoked when
\* Initialize or an earlier step failed.  (A trace only grows, so every
\* prefix of it is the trace of an earlier state: the order is stated for
\* the last statement of the trace against each statement before it.)
C5_StepsInOrder ==
    \A t \in Threads :
        LET c == call[t]
            s == c.steps IN
        /\ \A k \in {Len(s)} \ {0} : \A j \in 1..(k - 1) :
            /\ (Rank(s[j][1]) > 0 /\ Rank(s[k][1]) > 0) =>
                    \/ Rank(s[j][1]) < Rank(s[k][1])
                    \/ Rank(s[j][1]) = 7 /\ Rank(s[k][1]) = 7
            /\ (s[j][2] = FALSE /\ s[j][1] \in FailingSteps) =>
                    s[k][1] \in Cleanup
            /\ (s[j][2] = FALSE /\ s[j][1] \in {"NewIPStack", "Dequeue"}) =>
                    \/ s[k][1] \in Cleanup
                    \/ s[k] = <<"Build", FALSE>>
        /\ (DidWith(c, "Build", FALSE) \/ DidWith(c, "CloseFile", FALSE)
                \/ DidWith(c, "CloseReader", FALSE)) => c.virt = "none"
        /\ DidWith(c, "Initialize", FALSE) => (c.virt = "allocated" /\ ~Did(c, "Start"))
        /\ c.virt # "none" => DidWith(c, "CloseReader", TRUE)

\* a firecracker call whose build succeeded returned after the close of the
\* package reader failed, with no virtualizer allocated
C5_Witness ==
    \E t \in Threads :
        LET c == call[t] IN
        /\ Returned(c) /\ c.backend = "firecracker"
        /\ DidWith(c, "Build", TRUE) /\ DidWith(c, "CloseReader", FALSE)
        /\ c.virt = "none" /\ c.ret = "ErrReaderClose"

\* ---------------------------------------------------------------- C6
\* C6: in every call Initialize is called at most once, and only after the
\* build succeeded, the disk file was closed and the package reader was
\* closed, in that order, the disk then being a complete image behind a
\* closed handle; Start is called only after Initialize returned success.
C6_InitializeOnceAfterBuild ==
    \A t \in Threads :
        LET c == call[t]
            s == c.steps IN
        /\ Times(c, "Initialize") <= 1
        /\ Times(c, "Start") <= 1
        /\ \A k \in DOMAIN s : s[k][1] = "Initialize" =>
            /\ 0 < Index(s, <<"Build", TRUE>>)
            /\ Index(s, <<"Build", TRUE>>) < Index(s, <<"CloseFile", TRUE>>)
            /\ Index(s, <<"CloseFile", TRUE>>) < Index(s, <<"CloseReader", TRUE>>)
            /\ Index(s, <<"CloseReader", TRUE>>) < k
        /\ c.pc = "init" => (~c.fOpen /\ files[c.f] = "image" /\ c.virt = "allocated")
        /\ \A k \in DOMAIN s : s[k][1] = "Start" =>
            /\ 0 < Index(s, <<"Initialize", TRUE>>)
            /\ Index(s, <<"Initialize", TRUE>>) < k
        /\ c.virt = "running" => DidWith(c, "Initialize", TRUE)

\* a hyper-v call initialized its virtualizer and started it
C6_Witness ==
    \E t \in Threads :
        LET c == call[t] IN
        /\ c.backend = "hyperv" /\ c.pc = "running"
        /\ DidWith(c, "Initialize", TRUE) /\ Did(c, "Start")

\* ---------------------------------------------------------------- C7
\* C7 (as claimed): when an output path was supplied and the build step
\* failed, saveDisk is not called, and nothing short of a complete image
\* is put at the output path by the call.
C7_NoRelocationAfterFailedBuild ==
    \A t \in Threads :
        LET c == call[t] IN
        (c.diskOutput # "" /\ DidWith(c, "Build", FALSE)) =>
            /\ ~Did(c, "saveDisk")
            /\ outFile = c.pre.outFile

\* ---------------------------------------------------------------- C8
\* C8: when an output path was supplied and the build step succeeded,
\* saveDisk is called exactly once, by the deferred closure after it closed
\* the file, whether the call fails at a later step or not.
C8_RelocationOnceAfterBuild ==
    \A t \in Threads :
        LET c == call[t]
            s == c.steps IN
        (c.diskOutput # "" /\ DidWith(c, "Build", TRUE)) =>
            /\ Times(c, "saveDisk") <= 1
            /\ c.pc \in {"rm_file", "rm_parent", "rmall", "return", "returned"} =>
                    Times(c, "saveDisk") = 1
            /\ \A k \in DOMAIN s : s[k][1] = "saveDisk" =>
                    (k > 1 /\ s[k - 1][1] = "FinalClose")

\* a call with an output path returned the error of Start after its build
\* succeeded, and its disk is at the output path
C8_Witness ==
    \E t \in Threads :
        LET c == call[t] IN
        /\ Returned(c) /\ c.diskOutput # "" /\ c.ret = "ErrStart"
        /\ DidWith(c, "Build", TRUE) /\ DidWith(c, "saveDisk", TRUE)
        /\ outFile = "image"

\* ---------------------------------------------------------------- C9
\* the errors a failing step can give
ErrorsOf(op) ==
    CASE op = "CheckPlatform" -> {"ErrPlatform"}
      [] op = "IsAvailable" -> {"ErrUnavailable"}
      [] op = "SetupBridge" -> {"ErrBridge"}
      [] op = "MkdirAll" -> {"ErrMkdir"}
      [] op = "CreateDisk" -> {"ErrCreate"}
      [] op = "WithDefaults" -> {"ErrDefaults"}
      [] op = "NewIPStack" -> {"ErrIPStack"}
      [] op = "Dequeue" -> {"ErrDBClosed", "ErrEmpty"}
      [] op = "Build" -> {"ErrBuild", "ErrImage"}
      [] op = "CloseFile" -> {"ErrClose"}
      [] op = "CloseReader" -> {"ErrReaderClose"}
      [] op = "Initialize" -> {"ErrInitialize"}
      [] op = "StartReturn" -> {"ErrStart"}
      [] OTHER -> {}

\* the places in the trace where a step of the call failed
Failures(c) ==
    {k \in DOMAIN c.steps :
        /\ c.steps[k][2] = FALSE
        /\ c.steps[k][1] \in FailingSteps \cup {"NewIPStack", "Dequeue"}}

\* C9: a call returns the error of its first failing step, and success
\* when no step failed, which is when Start returned success; whether
\* saveDisk and the removals succeeded does not change the value.
C9_ReturnsFirstFailure ==
    \A t \in Threads :
        LET c == call[t]
            F == Failures(c) IN
        Returned(c) =>
            /\ (F = {}) => (c.ret = "ok" /\ DidWith(c, "StartReturn", TRUE))
            /\ (F # {}) =>
                LET first == CHOOSE k \in F : \A m \in F : k <= m
                IN c.ret \in ErrorsOf(c.steps[first][1])

\* a call with an output path returned success although saveDisk failed
C9_Witness ==
    \E t \in Threads :
        LET c == call[t] IN
        /\ Returned(c) /\ c.diskOutput # "" /\ c.ret = "ok"
        /\ DidWith(c, "Build", TRUE) /\ DidWith(c, "StartReturn", TRUE)
        /\ DidWith(c, "saveDisk", FALSE) /\ c.relocErr = "ErrRename"

\* --------------------------------------------------------------- C10
\* C10 (as claimed): when buildFirecracker has returned for a configuration
\* that declares N interfaces, the queue held at least N addresses and could
\* be opened, exactly N addresses were dequeued, slot i holds the i-th of
\* them with the bridge address as gateway and the mask 255.255.255.0; with
\* N = 0 the queue was neither constructed nor dequeued.
C10_LeasesInDeclarationOrder ==
    \A t \in Threads :
        LET c == call[t]
            N == Len(c.networks) IN
        (/\ c.backend = "firecracker" /\ Did(c, "Build")
         /\ Len(c.pre.queue) >= N /\ ~DidWith(c, "NewIPStack", FALSE)) =>
            /\ Len(c.leased) = N
            /\ \A k \in 1..N :
                /\ c.leased[k] = c.pre.queue[k]
                /\ c.networks[k] = [IP |-> <<10, 26, 10, c.pre.queue[k]>>,
                                    Gateway |-> <<10, 26, 10, 1>>,
                                    Mask |-> "255.255.255.0"]
            /\ queue = SubSeq(c.pre.queue, N + 1, Len(c.pre.queue))
            /\ (N = 0) => (~Did(c, "NewIPStack") /\ ~Did(c, "Dequeue") /\ ips = c.pre.ips)

\* --------------------------------------------------------------- C11
\* C11 (as claimed): the queue an earlier build of the process constructed
\* stays usable: a later build with declared networks, which finds the
\* variable ips set and addresses in the queue, dequeues its first address.
C11_QueueStaysUsable ==
    \A t \in Threads :
        LET c == call[t] IN
        (/\ c.backend = "firecracker" /\ Len(c.networks) > 0
         /\ c.pre.ips # "nil" /\ c.pre.queue # <<>>
         /\ Did(c, "Dequeue")) =>
            /\ DidWith(c, "Dequeue", TRUE)
            /\ ~DidWith(c, "Dequeue", FALSE) \/ Len(c.leased) = Len(c.pre.queue)

\* --------------------------------------------------------------- C14
\* C14: in a firecracker call the kernel identifier the image builder
\* reported is in cfg.VM.Kernel when Initialize is called, and the
\* configuration handed to run carries that identifier; when the build
\* failed cfg.VM.Kernel is the value the caller passed in.
C14_KernelThreadedBack ==
    \A t \in Threads :
        LET c == call[t] IN
        c.backend = "firecracker" =>
            /\ (c.pc = "init" \/ Did(c, "Initialize")) =>
                    (c.kernelVer \in Kernels /\ c.kernel = c.kernelVer)
            /\ Did(c, "Start") =>
                    (c.kernelVer \in Kernels /\ c.startKernel = c.kernelVer)
            /\ (DidWith(c, "Build", FALSE) \/ ~Did(c, "Build")) =>
                    c.kernel = InitialKernel

\* a firecracker call entered run with the second of the identifiers the
\* builder can report
C14_Witness ==
    \E t \in Threads :
        LET c == call[t] IN
        /\ c.backend = "firecracker" /\ c.pc = "running"
        /\ c.kernelVer = "20.9.2" /\ c.startKernel = "20.9.2"

\* --------------------------------------------------------------- C15
\* C15: a firecracker call provisions the bridge device, at the fixed bridge
\* address, exactly when fetching the device failed; when provisioning
\* succeeds the device exists and the call goes on with os.MkdirAll, as it
\* does when the device was there; when provisioning fails the call returns
\* that error with no scratch directory created and no address dequeued.
C15_BridgeProvisionedWhenAbsent ==
    \A t \in Threads :
        LET c == call[t]
            s == c.steps
            n == Len(s) IN
        /\ Did(c, "SetupBridge") =>
                (DidWith(c, "FetchBridgeDevice", FALSE) /\ c.bridgeAt = <<10, 26, 10, 1>>)
        /\ (DidWith(c, "FetchBridgeDevice", FALSE) /\ c.pc # "setup_bridge") =>
                Did(c, "SetupBridge")
        /\ DidWith(c, "FetchBridgeDevice", TRUE) => (~Did(c, "SetupBridge") /\ bridge)
        /\ Times(c, "SetupBridge") <= 1
        /\ DidWith(c, "SetupBridge", TRUE) => bridge
        /\ (n > 1 /\ s[n - 1] \in {<<"FetchBridgeDevice", TRUE>>, <<"SetupBridge", TRUE>>}) =>
                (s[n][1] = "MkdirAll" /\ c.err \in {"nil", "ErrMkdir"})
        /\ (n > 0 /\ s[n] \in {<<"FetchBridgeDevice", TRUE>>, <<"SetupBridge", TRUE>>}) =>
                (c.pc = "mkdir" /\ c.err = "nil")
        /\ DidWith(c, "SetupBridge", FALSE) =>
            /\ c.pc \in {"return", "returned"}
            /\ c.err = "ErrBridge"
            /\ Returned(c) => c.ret = "ErrBridge"
            /\ s[n] = <<"SetupBridge", FALSE>>
            /\ c.parent = NoDir /\ c.f = NoFile /\ c.leased = <<>>
            /\ dirs = c.pre.dirs /\ queue = c.pre.queue /\ ips = c.pre.ips

\* a firecracker call that found no bridge device provisioned it and went
\* on to start its virtualizer
C15_Witness ==
    \E t \in Threads :
        LET c == call[t] IN
        /\ c.backend = "firecracker" /\ c.pc = "running"
        /\ ~c.pre.bridge /\ DidWith(c, "SetupBridge", TRUE) /\ bridge

\* --------------------------------------------------------------- C16
\* C16: the statements of the deferred functions that repeat what was done
\* already change nothing and raise nothing: f.Close() on the closed
\* handle, os.Remove on the disk file that was relocated, os.RemoveAll on a
\* directory that was removed or never created leave the directories, the
\* files and the error of the call as they were, and a call none of whose
\* steps failed returns success.
C16_FinalizeIdempotent ==
    [][\A t \in Threads :
        LET c == call[t]
            d == call'[t] IN
        /\ (c.pc = "fin_close" /\ ~c.fOpen /\ d.pc # c.pc) =>
                (UNCHANGED <<dirs, files, outFile>> /\ d.err = c.err /\ ~d.fOpen)
        /\ (c.pc = "rm_file" /\ files[c.f] = "absent" /\ d.pc # c.pc) =>
                (UNCHANGED <<dirs, files, outFile>> /\ d.err = c.err)
        /\ (c.pc = "rmall" /\ c.parent \notin dirs /\ d.pc # c.pc) =>
                (UNCHANGED <<dirs, files, outFile>> /\ d.err = c.err)
        /\ (c.pc = "return" /\ d.pc = "returned" /\ Failures(c) = {}) =>
                d.ret = "ok"
        /\ (c.pc = "return" /\ d.pc = "returned") => d.ret # "ErrClosed"
      ]_vars

\* a qemu call returned success after its deferred functions closed the
\* closed file, removed the relocated file and removed the removed directory
C16_Witness ==
    \E t \in Threads :
        LET c == call[t] IN
        /\ Returned(c) /\ c.backend = "qemu" /\ c.ret = "ok"
        /\ DidWith(c, "FinalClose", FALSE) /\ DidWith(c, "saveDisk", TRUE)
        /\ DidWith(c, "RemoveDisk", FALSE) /\ DidWith(c, "RemoveParent", TRUE)
        /\ Did(c, "RemoveAll")

\* --------------------------------------------------------------- C17
\* the addresses in the sequence q
Range(q) == {q[k] : k \in DOMAIN q}

\* C17: the queue changes only by losing its head to the call that
\* dequeues it, and that address is not in the queue afterwards; so at every
\* moment of a call, failed or not, the addresses it leased are the first
\* ones the queue held when it began and the queue is shorter by exactly
\* those, and the queue stays a tail of the pool it was populated with.
C17_QueueOnlyDrained ==
    [][/\ queue' # queue =>
            /\ queue # <<>>
            /\ queue' = Tail(queue)
            /\ Head(queue) \notin Range(queue')
            /\ \E t \in Threads : call'[t].leased = Append(call[t].leased, Head(queue))
       /\ \A t \in Threads :
            LET d == call'[t]
                k == Len(d.leased) IN
            d.pc # "idle" =>
                /\ k <= Len(d.pre.queue)
                /\ d.leased = SubSeq(d.pre.queue, 1, k)
                /\ queue' = SubSeq(d.pre.queue, k + 1, Len(d.pre.queue))
                /\ Range(d.leased) \cap Range(queue') = {}
       /\ \E k \in 0..PoolSize : queue' = SubSeq(Pool, k + 1, PoolSize)
      ]_vars

\* a firecracker call that declared two interfaces returned the error of
\* the empty queue after it leased the one address there was
C17_Witness ==
    \E t \in Threads :
        LET c == call[t] IN
        /\ Returned(c) /\ c.backend = "firecracker" /\ Len(c.networks) = 2
        /\ c.ret = "ErrEmpty" /\ Len(c.leased) = 1
        /\ Len(c.pre.queue) = 1 /\ queue = <<>>

\* --------------------------------------------------------------- C18
\* the statements up to the close of the disk file whose failure ends a call
UpToCloseFile ==
    {"CheckPlatform", "IsAvailable", "SetupBridge", "MkdirAll", "CreateDisk",
     "Build", "CloseFile"}

\* C18: a call closes the package reader at most once, right after the
\* close of the disk file succeeded, which follows the successful build;
\* the reader is closed before the virtualizer is allocated; and a call in
\* which a step up to the close of the disk file failed (or, for
\* firecracker, vcfg.WithDefaults before the build) never closes the reader.
C18_ReaderClosedOnceAfterBuild ==
    \A t \in Threads :
        LET c == call[t]
            s == c.steps IN
        /\ Times(c, "CloseReader") <= 1
        /\ \A k \in DOMAIN s : s[k][1] = "CloseReader" =>
            /\ k > 2
            /\ s[k - 1] = <<"CloseFile", TRUE>>
            /\ s[k - 2] = <<"Build", TRUE>>
        /\ c.pc = "rclose" => (~c.fOpen /\ files[c.f] = "image" /\ c.virt = "none")
        /\ (c.pc = "alloc" \/ Did(c, "Alloc") \/ c.virt # "none") =>
                DidWith(c, "CloseReader", TRUE)
        /\ \A k \in DOMAIN s : (s[k][1] = "Alloc" \/ s[k][1] = "Initialize") =>
                (0 < Index(s, <<"CloseReader", TRUE>>) /\ Index(s, <<"CloseReader", TRUE>>) < k)
        /\ (\E k \in DOMAIN s : s[k][2] = FALSE /\ s[k][1] \in UpToCloseFile) =>
                ~Did(c, "CloseReader")
        /\ (c.backend = "firecracker" /\ DidWith(c, "WithDefaults", FALSE)) =>
                ~Did(c, "CloseReader")

\* a call returned the error of the close of its disk file, its build done
\* and its reader not closed
C18_Witness ==
    \E t \in Threads :
        LET c == call[t] IN
        /\ Returned(c) /\ c.ret = "ErrClose"
        /\ DidWith(c, "Build", TRUE) /\ ~Did(c, "CloseReader")

\* --------------------------------------------------------------- C19
\* C19: while run is executing, for every backend, the disk file exists,
\* closed, in the scratch directory at the path run was given, no statement
\* of the deferred functions has run and the output path holds what it held
\* when the call began; in a call that entered run the deferred statements
\* (relocation, removals) come after the return of run, so the output file
\* changes only then.
C19_DiskInPlaceWhileRunning ==
    \A t \in Threads :
        LET c == call[t]
            s == c.steps
            n == Len(s) IN
        /\ c.pc = "running" =>
            /\ c.startDisk = c.f /\ c.f # NoFile /\ c.f.dir = c.parent
            /\ c.parent \in dirs
            /\ files[c.startDisk] # "absent"
            /\ ~c.fOpen
            /\ \A k \in DOMAIN s : s[k][1] \notin Cleanup
            /\ outFile = c.pre.outFile
        /\ (Did(c, "Start") /\ n > 0 /\ s[n][1] \in Cleanup) =>
            \E k \in 1..(n - 1) : s[k][1] = "StartReturn"
        /\ (Did(c, "Start") /\ outFile # c.pre.outFile) =>
            (Did(c, "StartReturn") /\ DidWith(c, "saveDisk", TRUE))

\* run is executing in a virtualbox call that was given an output path:
\* the image is in the scratch directory and not at the output path
C19_Witness ==
    \E t \in Threads :
        LET c == call[t] IN
        /\ c.pc = "running" /\ c.backend = "virtualbox" /\ c.diskOutput # ""
        /\ files[c.startDisk] = "image" /\ outFile = "absent"

\* --------------------------------------------------------------- C20
\* C20: in a qemu call (the probe answered true, no network is declared)
\* the configuration given to Initialize has Headless equal to the negation
\* of the GUI flag, and run is entered with the path of the temporary disk
\* file the build wrote, which holds the image at that moment.
C20_QemuHeadlessAndDisk ==
    \A t \in Threads :
        LET c == call[t] IN
        (c.backend = "qemu" /\ Len(c.networks) = 0) =>
            /\ Did(c, "Initialize") =>
                /\ DidWith(c, "IsAvailable", TRUE)
                /\ DidWith(c, "Build", TRUE)
                /\ c.initHeadless = (IF flagGUI THEN "false" ELSE "true")
            /\ Did(c, "Start") =>
                /\ DidWith(c, "Initialize", TRUE)
                /\ c.startDisk = c.f
                /\ c.startDisk.dir = c.parent
                /\ c.startDisk.name \in TempNames
            /\ c.pc = "running" => files[c.startDisk] = "image"

\* a qemu call without networks is inside run, no display was requested
\* and Initialize was given Headless = true
C20_Witness ==
    \E t \in Threads :
        LET c == call[t] IN
        /\ c.backend = "qemu" /\ Len(c.networks) = 0 /\ ~flagGUI
        /\ c.pc = "running" /\ c.initHeadless = "true"
        /\ files[c.startDisk] = "image"

\* --------------------------------------------------------------- C12
\* C12: when calls that declare networks overlap in one process, no address
\* is leased to two of them, and a call that began before any build had
\* closed the queue and found the queue constructed by another call is
\* refused an address only when the pool is exhausted, however the
\* construction of the queue, the dequeues and the return of the other
\* builds interleave.
C12_ConcurrentBuildsLeaseAll ==
    \A t \in Threads :
        LET c == call[t] IN
        /\ \A u \in Threads \ {t} :
            Range(c.leased) \cap Range(call[u].leased) = {}
        /\ (/\ c.pre.ips # "closed"
            /\ ~Did(c, "NewIPStack")
            /\ DidWith(c, "Dequeue", FALSE)) =>
            c.berr = "ErrEmpty"

\* --------------------------------------------------------------- C13
\* a call holds its scope from the creation of its disk file until its own
\* deferred functions start
HoldsScope(c) ==
    /\ c.deferFinal
    /\ c.pc \notin {"fin_close", "save", "rm_file", "rm_parent", "rmall",
                    "return", "returned", "panicked"}

\* C13: the scratch directory and the disk file of a call that holds its
\* scope are not written, relocated or removed by a step of another call,
\* whatever suffixes the calls draw: a step that leaves the call where it is
\* leaves its disk file as it is and its directory in place.
C13_ScopesNotShared ==
    [][\A t \in Threads :
        (HoldsScope(call[t]) /\ call'[t] = call[t]) =>
            /\ files'[call[t].f] = files[call[t].f]
            /\ call[t].parent \in dirs => call[t].parent \in dirs']_vars

====
